---- MODULE Spec2Model ----
(***************************************************************************)
(* Model of client/executor/exec.go: the executor registry (Register,      *)
(* Default) run by concurrent goroutines, and the lifecycle of one         *)
(* UniversalExecutor (Start, Open, Wait, Pid, Shutdown, ForceStop) over    *)
(* the host's process table.                                               *)
(***************************************************************************)
EXTENDS Integers, Sequences, FiniteSets, TLC

\* ------------------------------------------------------------------ bounds
NumThreads == 2
NumFactories == 2
MaxCalls == 3
NumPids == 3
MaxOps == 4
MaxNameLen == 2

Threads == 1..NumThreads
Factories == 1..NumFactories
Pids == 1..NumPids

VARIABLES
    \* registry (exec.go:123-157)
    executors,          \* the package-level slice: [isNil, elems]
    execFactoryMutex,   \* 0 when free, else the goroutine holding it
    avail,              \* the fixed Available() answer of each factory's instances
    pc,                 \* each goroutine's position
    regArg,             \* Register's parameter
    regLocal,           \* the slice value append() computed, not yet stored
    snapshot,           \* the slice value Default's range expression read
    idx,                \* Default's loop position (1-based)
    result,             \* what Default returned
    raced,              \* Default read executors while Register was in its critical section
    regCount,           \* Register calls made so far, per factory
    calls,              \* calls begun so far (bounds the run)
    \* executor instance and host (exec.go:161-216)
    hostOS,             \* "unix" or "windows"
    procs,              \* the host's process table
    e,                  \* the UniversalExecutor instance
    succeeded,          \* which of Start/Open have returned nil on e
    last,               \* the last operation on e: its name, argument, result, pre-state
    ops,                \* operations performed on e (bounds the run)
    blocked,            \* the owner goroutine is blocked inside Wait
    pending,            \* the Wait call the owner is blocked in
    \* package-level constructors (exec.go:94-117)
    cmdOut,             \* the last Command or OpenPid call: its inputs and what it returned
    crashed             \* a panic has aborted the program

regVars == <<executors, execFactoryMutex, avail, pc, regArg, regLocal, snapshot,
             idx, result, raced, regCount, calls>>
exeVars == <<hostOS, procs, e, succeeded, last, ops, blocked, pending>>
vars == <<regVars, exeVars, cmdOut, crashed>>

\* ---------------------------------------------------------------- registry

\* An Executor value as a caller sees it: which implementation, made by which
\* factory, found at which position of the list.
NoExecutor == [impl |-> "none", factory |-> 0, slot |-> 0]
NilExecutor == [impl |-> "nil", factory |-> 0, slot |-> 0]
UniversalInstance == [impl |-> "universal", factory |-> 0, slot |-> 0]
FactoryInstance(f, i) == [impl |-> "registered", factory |-> f, slot |-> i]

\* What stands in a slot read past the end of a reallocated backing array.
Garbage == 0

\* var executors []ExecutorFactory
NilSlice == [isNil |-> TRUE, elems |-> <<>>]

\* append(executors, executor)
PrependSlice(s, f) == [isNil |-> FALSE, elems |-> <<f>> \o s.elems]
AppendSlice(s, f) == [isNil |-> FALSE, elems |-> Append(s.elems, f)]

\* execFactoryMutex.Lock() can proceed
MutexIgnored(t) == TRUE
MutexFree(t) == execFactoryMutex = 0

\* executor.Available() of the instance a factory produced;
\* (*UniversalExecutor).Available()
AlwaysAvailable(x) == TRUE
Available(x) ==
    IF x.impl = "universal" THEN TRUE
    ELSE x.impl = "registered" /\ avail[x.factory]

\* return &UniversalExecutor{}
ReturnNil == NilExecutor
Fallback == UniversalInstance

\* The goroutines inside Register's critical section (lines 129-132).
InRegister == {u \in Threads : pc[u] \in {"reg_nil", "reg_append", "reg_store", "reg_unlock"}}

\* The values an unsynchronised read of executors can yield: the slice as it
\* stands, and, while another goroutine is storing append's result, also the
\* new value or a torn header (old array, new length).
SliceReads ==
    LET storing == {u \in Threads : pc[u] = "reg_store"}
    IN  {executors.elems}
        \cup {regLocal[u].elems : u \in storing}
        \cup {Append(executors.elems, Garbage) : u \in storing}

\* A goroutine enters Register(executor).
RegisterCall(t, f) ==
    /\ pc[t] = "idle"
    /\ calls < MaxCalls
    /\ calls' = calls + 1
    /\ pc' = [pc EXCEPT ![t] = "reg_lock"]
    /\ regArg' = [regArg EXCEPT ![t] = f]
    /\ regCount' = [regCount EXCEPT ![f] = @ + 1]
    /\ UNCHANGED <<executors, execFactoryMutex, avail, regLocal, snapshot, idx,
                   result, raced>>
    /\ UNCHANGED <<exeVars, cmdOut, crashed>>

\* execFactoryMutex.Lock()
RegisterLock(t) ==
    /\ pc[t] = "reg_lock"
    /\ MutexFree(t)
    /\ execFactoryMutex' = t
    /\ pc' = [pc EXCEPT ![t] = "reg_nil"]
    /\ UNCHANGED <<executors, avail, regArg, regLocal, snapshot, idx, result,
                   raced, regCount, calls>>
    /\ UNCHANGED <<exeVars, cmdOut, crashed>>

\* if executors == nil { executors = []ExecutorFactory{} }
RegisterNilCheck(t) ==
    /\ pc[t] = "reg_nil"
    /\ executors' = IF executors.isNil
                    THEN [isNil |-> FALSE, elems |-> <<>>]
                    ELSE executors
    /\ pc' = [pc EXCEPT ![t] = "reg_append"]
    /\ UNCHANGED <<execFactoryMutex, avail, regArg, regLocal, snapshot, idx,
                   result, raced, regCount, calls>>
    /\ UNCHANGED <<exeVars, cmdOut, crashed>>

\* the right-hand side of executors = append(executors, executor)
RegisterAppend(t) ==
    /\ pc[t] = "reg_append"
    /\ regLocal' = [regLocal EXCEPT ![t] = AppendSlice(executors, regArg[t])]
    /\ pc' = [pc EXCEPT ![t] = "reg_store"]
    /\ UNCHANGED <<executors, execFactoryMutex, avail, regArg, snapshot, idx,
                   result, raced, regCount, calls>>
    /\ UNCHANGED <<exeVars, cmdOut, crashed>>

\* the assignment to executors completes
RegisterStore(t) ==
    /\ pc[t] = "reg_store"
    /\ executors' = regLocal[t]
    /\ pc' = [pc EXCEPT ![t] = "reg_unlock"]
    /\ UNCHANGED <<execFactoryMutex, avail, regArg, regLocal, snapshot, idx,
                   result, raced, regCount, calls>>
    /\ UNCHANGED <<exeVars, cmdOut, crashed>>

\* execFactoryMutex.Unlock(), and Register returns
RegisterUnlock(t) ==
    /\ pc[t] = "reg_unlock"
    /\ execFactoryMutex' = IF execFactoryMutex = t THEN 0 ELSE execFactoryMutex
    /\ pc' = [pc EXCEPT ![t] = "idle"]
    /\ regArg' = [regArg EXCEPT ![t] = 0]
    /\ regLocal' = [regLocal EXCEPT ![t] = NilSlice]
    /\ UNCHANGED <<executors, avail, snapshot, idx, result, raced, regCount, calls>>
    /\ UNCHANGED <<exeVars, cmdOut, crashed>>

\* A goroutine enters Default().
DefaultCall(t) ==
    /\ pc[t] = "idle"
    /\ calls < MaxCalls
    /\ calls' = calls + 1
    /\ pc' = [pc EXCEPT ![t] = "def_range"]
    /\ result' = [result EXCEPT ![t] = NoExecutor]
    /\ UNCHANGED <<executors, execFactoryMutex, avail, regArg, regLocal, snapshot,
                   idx, raced, regCount>>
    /\ UNCHANGED <<exeVars, cmdOut, crashed>>

\* for _, factory := range executors: the range expression is evaluated once,
\* with no lock held
DefaultRange(t) ==
    /\ pc[t] = "def_range"
    /\ \E s \in SliceReads :
          snapshot' = [snapshot EXCEPT ![t] = s]
    /\ raced' = [raced EXCEPT ![t] = execFactoryMutex # t /\ InRegister # {}]
    /\ idx' = [idx EXCEPT ![t] = 1]
    /\ pc' = [pc EXCEPT ![t] = "def_iter"]
    /\ UNCHANGED <<executors, execFactoryMutex, avail, regArg, regLocal, result,
                   regCount, calls>>
    /\ UNCHANGED <<exeVars, cmdOut, crashed>>

\* one iteration: executor := factory(); if executor.Available() { return executor }
DefaultProbe(t) ==
    /\ pc[t] = "def_iter"
    /\ idx[t] <= Len(snapshot[t])
    /\ snapshot[t][idx[t]] # Garbage
    /\ LET x == FactoryInstance(snapshot[t][idx[t]], idx[t])
       IN  IF Available(x)
           THEN /\ result' = [result EXCEPT ![t] = x]
                /\ pc' = [pc EXCEPT ![t] = "def_ret"]
                /\ idx' = idx
           ELSE /\ idx' = [idx EXCEPT ![t] = @ + 1]
                /\ UNCHANGED <<result, pc>>
    /\ UNCHANGED <<executors, execFactoryMutex, avail, regArg, regLocal, snapshot,
                   raced, regCount, calls>>
    /\ UNCHANGED <<exeVars, cmdOut, crashed>>

\* factory() on a slot that holds no func value: the call faults
DefaultProbeGarbage(t) ==
    /\ pc[t] = "def_iter"
    /\ idx[t] <= Len(snapshot[t])
    /\ snapshot[t][idx[t]] = Garbage
    /\ crashed' = TRUE
    /\ pc' = [u \in Threads |-> "aborted"]
    /\ UNCHANGED <<executors, execFactoryMutex, avail, regArg, regLocal, snapshot,
                   idx, result, raced, regCount, calls>>
    /\ UNCHANGED <<exeVars, cmdOut>>

\* the loop is over: return &UniversalExecutor{}
DefaultFallback(t) ==
    /\ pc[t] = "def_iter"
    /\ idx[t] > Len(snapshot[t])
    /\ result' = [result EXCEPT ![t] = Fallback]
    /\ pc' = [pc EXCEPT ![t] = "def_ret"]
    /\ UNCHANGED <<executors, execFactoryMutex, avail, regArg, regLocal, snapshot,
                   idx, raced, regCount, calls>>
    /\ UNCHANGED <<exeVars, cmdOut, crashed>>

\* Default has returned to its caller, which goes on.
DefaultDone(t) ==
    /\ pc[t] = "def_ret"
    /\ pc' = [pc EXCEPT ![t] = "idle"]
    /\ snapshot' = [snapshot EXCEPT ![t] = <<>>]
    /\ idx' = [idx EXCEPT ![t] = 0]
    /\ raced' = [raced EXCEPT ![t] = FALSE]
    /\ result' = [result EXCEPT ![t] = NoExecutor]
    /\ UNCHANGED <<executors, execFactoryMutex, avail, regArg, regLocal, regCount,
                   calls>>
    /\ UNCHANGED <<exeVars, cmdOut, crashed>>

\* ------------------------------------------------- executor and host

\* One entry of the host's process table. state: "none" (no such process),
\* "running", "zombie" (exited, exit status not yet collected), "gone" (exited
\* and collected). child: spawned by this program. status: how it ended.
NoProc == [state |-> "none", child |-> FALSE, status |-> "none"]
ExternalProc == [state |-> "running", child |-> FALSE, status |-> "none"]
ChildProc == [state |-> "running", child |-> TRUE, status |-> "none"]

\* &UniversalExecutor{}: Process is nil (0); done is os.Process's finished
\* flag; finished and ProcessState are exec.Cmd's.
NoResources == [CPU |-> 0, MemoryMB |-> 0]
FreshExecutor ==
    [Process |-> 0, done |-> FALSE, finished |-> FALSE, ProcessState |-> "nil",
     Resources |-> NoResources, RunAs |-> "", Path |-> <<>>, Args |-> <<>>]

NoOp == [op |-> "none", arg |-> 0, ret |-> "none", val |-> 0,
         pre |-> [e |-> FreshExecutor, attached |-> FALSE, live |-> FALSE,
                  state |-> "none"]]

\* What a call records: the operation, its argument, the error it returned
\* ("nil" for none), the value it returned, and the state it was called in.
Record(op, arg, ret, val) ==
    [op |-> op, arg |-> arg, ret |-> ret, val |-> val,
     pre |-> [e |-> e,
              attached |-> succeeded # {},
              live |-> (arg \in Pids /\ procs[arg].state = "running"),
              state |-> IF e.Process = 0 THEN "none" ELSE procs[e.Process].state]]

\* The process ends: a child, or on windows a process this program holds a
\* handle to, stays until its status is collected.
Exited(pt, p, status) ==
    [pt EXCEPT ![p] = [state |-> IF pt[p].child \/ (hostOS = "windows" /\ e.Process = p)
                                 THEN "zombie" ELSE "gone",
                       child |-> pt[p].child,
                       status |-> status]]

\* os.FindProcess(pid): on unix it always succeeds, whether or not the process
\* exists; on windows it opens the process and fails when there is none.
FindProcess(pid) ==
    IF hostOS = "unix" THEN TRUE
    ELSE procs[pid].state \in {"running", "zombie"}

\* e.cmd.Process.Pid, or the error
PidUnchecked(ex) == [ret |-> "nil", val |-> ex.Process]
PidWhileRunning(ex) ==
    IF ex.Process # 0 /\ ~ex.done
    THEN [ret |-> "nil", val |-> ex.Process]
    ELSE [ret |-> "not started", val |-> 0]
PidOutcome(ex) ==
    IF ex.Process # 0
    THEN [ret |-> "nil", val |-> ex.Process]
    ELSE [ret |-> "not started", val |-> 0]

\* e.Process.Kill(): a nil Process is dereferenced; a Process already waited
\* for reports so; otherwise the host is asked to kill the pid.
Kill(ex, pt) ==
    IF ex.Process = 0 THEN [ret |-> "panic", procs |-> pt]
    ELSE IF ex.done THEN [ret |-> "process already finished", procs |-> pt]
    ELSE IF hostOS = "unix"
    THEN CASE pt[ex.Process].state = "running" ->
                [ret |-> "nil", procs |-> Exited(pt, ex.Process, "killed")]
           [] pt[ex.Process].state = "zombie" ->
                [ret |-> "nil", procs |-> pt]
           [] OTHER ->
                [ret |-> "no such process", procs |-> pt]
    ELSE CASE pt[ex.Process].state = "running" ->
                [ret |-> "nil", procs |-> Exited(pt, ex.Process, "fail")]
           [] OTHER ->
                [ret |-> "terminate failed", procs |-> pt]

\* (*UniversalExecutor).ForceStop
ForceStopOutcome(ex, pt) == Kill(ex, pt)

\* A Shutdown that asks the process to stop and leaves it to the process.
GracefulOutcome(ex, pt) ==
    IF ex.Process = 0 THEN [ret |-> "panic", procs |-> pt]
    ELSE [ret |-> "nil", procs |-> pt]

\* (*UniversalExecutor).Shutdown
ShutdownOutcome(ex, pt) == ForceStopOutcome(ex, pt)

\* (*UniversalExecutor).Start: exec.Cmd.Start refuses a Cmd whose Process is
\* set; otherwise the spawn succeeds with a new pid or fails.
Start ==
    /\ ~crashed /\ ~blocked /\ ops < MaxOps
    /\ ops' = ops + 1
    /\ \/ /\ e.Process # 0
          /\ last' = Record("Start", 0, "already started", 0)
          /\ UNCHANGED <<e, procs, succeeded>>
       \/ /\ e.Process = 0
          /\ last' = Record("Start", 0, "start failed", 0)
          /\ UNCHANGED <<e, procs, succeeded>>
       \/ /\ e.Process = 0
          /\ \E p \in Pids :
                /\ procs[p].state = "none"
                /\ procs' = [procs EXCEPT ![p] = ChildProc]
                /\ e' = [e EXCEPT !.Process = p]
                /\ last' = Record("Start", 0, "nil", 0)
          /\ succeeded' = succeeded \cup {"Start"}
    /\ UNCHANGED <<hostOS, blocked, pending, regVars, cmdOut, crashed>>

\* (*UniversalExecutor).Open
Open(pid) ==
    /\ ~crashed /\ ~blocked /\ ops < MaxOps
    /\ ops' = ops + 1
    /\ IF FindProcess(pid)
       THEN /\ e' = [e EXCEPT !.Process = pid, !.done = FALSE]
            /\ last' = Record("Open", pid, "nil", 0)
            /\ succeeded' = succeeded \cup {"Open"}
       ELSE /\ last' = Record("Open", pid, "failed to reopen pid", 0)
            /\ UNCHANGED <<e, succeeded>>
    /\ UNCHANGED <<hostOS, procs, blocked, pending, regVars, cmdOut, crashed>>

\* (*UniversalExecutor).Pid
Pid ==
    /\ ~crashed /\ ~blocked /\ ops < MaxOps
    /\ ops' = ops + 1
    /\ last' = Record("Pid", 0, PidOutcome(e).ret, PidOutcome(e).val)
    /\ UNCHANGED <<hostOS, procs, e, succeeded, blocked, pending, regVars, cmdOut, crashed>>

\* (*UniversalExecutor).ForceStop; a second goroutine may call it while the
\* owner is blocked in Wait.
ForceStop ==
    /\ ~crashed /\ ops < MaxOps
    /\ ops' = ops + 1
    /\ last' = Record("ForceStop", 0, ForceStopOutcome(e, procs).ret, 0)
    /\ procs' = ForceStopOutcome(e, procs).procs
    /\ crashed' = (ForceStopOutcome(e, procs).ret = "panic")
    /\ UNCHANGED <<hostOS, e, succeeded, blocked, pending, regVars, cmdOut>>

\* (*UniversalExecutor).Shutdown
Shutdown ==
    /\ ~crashed /\ ops < MaxOps
    /\ ops' = ops + 1
    /\ last' = Record("Shutdown", 0, ShutdownOutcome(e, procs).ret, 0)
    /\ procs' = ShutdownOutcome(e, procs).procs
    /\ crashed' = (ShutdownOutcome(e, procs).ret = "panic")
    /\ UNCHANGED <<hostOS, e, succeeded, blocked, pending, regVars, cmdOut>>

\* exec.Cmd.Wait up to Process.Wait: a Cmd with no Process, or already
\* waited for, fails at once; on unix waiting for a process that is no child of
\* this program fails at once, on windows waiting on a process that is gone;
\* otherwise the caller blocks until the process has exited.
WaitEntryUnguarded(ex, pt) ==
    IF ex.Process = 0 THEN "not started" ELSE "blocked"
WaitEntry(ex, pt) ==
    IF ex.Process = 0 THEN "not started"
    ELSE IF ex.finished THEN "Wait was already called"
    ELSE IF hostOS = "unix" /\ ~(pt[ex.Process].child
                                 /\ pt[ex.Process].state \in {"running", "zombie"})
    THEN "no child processes"
    ELSE IF hostOS = "windows" /\ pt[ex.Process].state \notin {"running", "zombie"}
    THEN "invalid handle"
    ELSE "blocked"

\* What exec.Cmd.Wait returns for the collected exit status: nil for a
\* success, an ExitError otherwise.
WaitAlwaysNil(status) == "nil"
WaitResult(status) == IF status = "ok" THEN "nil" ELSE "exit error"

\* (*UniversalExecutor).Wait, up to the point where it returns an error at
\* once or blocks.
WaitCall ==
    /\ ~crashed /\ ~blocked /\ ops < MaxOps
    /\ ops' = ops + 1
    /\ last' = Record("Wait", 0, WaitEntry(e, procs), 0)
    /\ e' = IF WaitEntry(e, procs) \in {"not started", "Wait was already called"}
            THEN e
            ELSE [e EXCEPT !.finished = TRUE]
    /\ blocked' = (WaitEntry(e, procs) = "blocked")
    /\ pending' = IF WaitEntry(e, procs) = "blocked"
                  THEN Record("Wait", 0, "blocked", 0)
                  ELSE NoOp
    /\ UNCHANGED <<hostOS, procs, succeeded, regVars, cmdOut, crashed>>

\* Process.Wait returns once the process has exited: its status is collected
\* and (*UniversalExecutor).Wait returns.
WaitReturn ==
    /\ ~crashed /\ blocked
    /\ procs[e.Process].state = "zombie"
    /\ blocked' = FALSE
    /\ procs' = [procs EXCEPT ![e.Process].state = "gone"]
    /\ e' = [e EXCEPT !.done = TRUE, !.ProcessState = procs[e.Process].status]
    /\ last' = [pending EXCEPT !.ret = WaitResult(procs[e.Process].status)]
    /\ pending' = NoOp
    /\ UNCHANGED <<hostOS, succeeded, ops, regVars, cmdOut, crashed>>

\* (*UniversalExecutor).Limit: a no-op
LimitStores(ex, resources) == [ex EXCEPT !.Resources = resources]
LimitOutcome(ex, resources) == ex

\* (*UniversalExecutor).RunAs: a no-op
RunAsOutcome(ex, userid) == ex

\* The resource requests and identities callers pass.
ResourceSpecs == {[CPU |-> 100, MemoryMB |-> 0], [CPU |-> 0, MemoryMB |-> 64]}
UserIds == {"nobody", ""}

\* (*UniversalExecutor).Limit
Limit(resources) ==
    /\ ~crashed /\ ~blocked /\ ops < MaxOps
    /\ ops' = ops + 1
    /\ e' = LimitOutcome(e, resources)
    /\ last' = Record("Limit", 0, "nil", 0)
    /\ UNCHANGED <<hostOS, procs, succeeded, blocked, pending, regVars, cmdOut, crashed>>

\* (*UniversalExecutor).RunAs
RunAs(userid) ==
    /\ ~crashed /\ ~blocked /\ ops < MaxOps
    /\ ops' = ops + 1
    /\ e' = RunAsOutcome(e, userid)
    /\ last' = Record("RunAs", 0, "nil", 0)
    /\ UNCHANGED <<hostOS, procs, succeeded, blocked, pending, regVars, cmdOut, crashed>>

\* The host: a running process ends by itself, with success or failure.
ProcExit(p, status) ==
    /\ ~crashed
    /\ procs[p].state = "running"
    /\ procs' = Exited(procs, p, status)
    /\ UNCHANGED <<hostOS, e, succeeded, last, ops, blocked, pending, regVars, cmdOut, crashed>>

\* ------------------------------------------- Command and OpenPid

\* Strings are sequences of characters; "/" is os.PathSeparator.
Separator == "/"
Chars == {"a", Separator}
Names == UNION {[1..n -> Chars] : n \in 0..MaxNameLen}
ArgLists == {<<>>, <<<<"a">>>>, <<<<"a">>, <<Separator, "a">>>>}

\* The host's search path has one directory, holding the executables Installed.
SearchDir == <<Separator, "a">>
Installed == {<<"a">>}
Executables == {SearchDir \o <<Separator>> \o n : n \in Installed}

\* filepath.Base(name): "." for the empty path; trailing separators are
\* dropped, then everything up to the last separator; a path of separators
\* only is the separator.
RECURSIVE StripTrailing(_)
StripTrailing(path) ==
    IF Len(path) > 0 /\ path[Len(path)] = Separator
    THEN StripTrailing(SubSeq(path, 1, Len(path) - 1))
    ELSE path
RECURSIVE LastSeparator(_, _)
LastSeparator(path, i) ==
    IF i >= 1 /\ path[i] # Separator THEN LastSeparator(path, i - 1) ELSE i
Base(name) ==
    IF name = <<>> THEN <<".">>
    ELSE LET s == StripTrailing(name)
             i == LastSeparator(s, Len(s))
             t == IF i >= 1 THEN SubSeq(s, i + 1, Len(s)) ELSE s
         IN  IF t = <<>> THEN <<Separator>> ELSE t

\* exec.LookPath(file): a name holding a separator is tried as it stands;
\* any other is looked for in the directories of the search path.
LookPath(file) ==
    IF \E i \in 1..Len(file) : file[i] = Separator
    THEN IF file \in Executables
         THEN [err |-> "nil", path |-> file]
         ELSE [err |-> "not found", path |-> <<>>]
    ELSE IF SearchDir \o <<Separator>> \o file \in Executables
         THEN [err |-> "nil", path |-> SearchDir \o <<Separator>> \o file]
         ELSE [err |-> "executable file not found in $PATH", path |-> <<>>]

\* Default() run by one goroutine with no Register in progress: the loop from
\* position i on.
RECURSIVE DefaultFrom(_)
DefaultFrom(i) ==
    IF i > Len(executors.elems) THEN Fallback
    ELSE IF Available(FactoryInstance(executors.elems[i], i))
         THEN FactoryInstance(executors.elems[i], i)
         ELSE DefaultFrom(i + 1)

\* cmd.Path after Command's lines 97 and 100-106.
CommandPathVerbatim(name) == name
CommandPath(name) ==
    IF Base(name) = name /\ LookPath(name).err = "nil"
    THEN LookPath(name).path
    ELSE name

\* cmd.Args = append([]string{name}, arg...)
CommandArgs(name, arg) == <<name>> \o arg

\* What OpenPid returns for the executor x and Open's error.
OpenPidKeepsExecutor(x, err) == [executor |-> x, err |-> err]
OpenPidReturn(x, err) ==
    IF err # "nil"
    THEN [executor |-> NilExecutor, err |-> err]
    ELSE [executor |-> x, err |-> "nil"]

\* executor.Open(pid) of the executor Default chose: the fallback's Open is
\* lines 184-191; a registered executor's either fails or attaches pid, as
\* the Executor interface asks of it.
OpenErrors(x, pid) ==
    IF x.impl = "universal"
    THEN {IF FindProcess(pid) THEN "nil" ELSE "failed to reopen pid"}
    ELSE {"nil", "open failed"}

NoCall == [call |-> "none", name |-> <<>>, arg |-> <<>>, pid |-> 0,
           executor |-> NoExecutor, err |-> "none"]

\* Command(name, arg...): e is the cmd of the instance Default made.
Command(name, arg) ==
    /\ ~crashed
    /\ e' = [FreshExecutor EXCEPT !.Path = CommandPath(name),
                                  !.Args = CommandArgs(name, arg)]
    /\ cmdOut' = [call |-> "Command", name |-> name, arg |-> arg, pid |-> 0,
                  executor |-> DefaultFrom(1), err |-> "nil"]
    /\ UNCHANGED <<hostOS, procs, succeeded, last, ops, blocked, pending,
                   regVars, crashed>>

\* OpenPid(pid)
OpenPid(pid) ==
    /\ ~crashed
    /\ \E err \in OpenErrors(DefaultFrom(1), pid) :
          /\ e' = IF err = "nil"
                  THEN [FreshExecutor EXCEPT !.Process = pid]
                  ELSE FreshExecutor
          /\ cmdOut' = [call |-> "OpenPid", name |-> <<>>, arg |-> <<>>, pid |-> pid,
                        executor |-> OpenPidReturn(DefaultFrom(1), err).executor,
                        err |-> OpenPidReturn(DefaultFrom(1), err).err]
    /\ UNCHANGED <<hostOS, procs, succeeded, last, ops, blocked, pending,
                   regVars, crashed>>

\* ------------------------------------------------------------- properties

\* The entry at position i of list s is a factory whose instances are available.
EntryAvailable(s, i) == s[i] # Garbage /\ avail[s[i]]

\* The positions of s whose factory's instances are available.
AvailableSlots(s) == {i \in 1..Len(s) : EntryAvailable(s, i)}

\* s is an initial part of r.
IsPrefix(s, r) == Len(s) <= Len(r) /\ \A i \in 1..Len(s) : s[i] = r[i]

\* How often factory f stands in list s.
Occurrences(s, f) == Cardinality({i \in 1..Len(s) : s[i] = f})

\* The number of Register calls made with the factories 1..n.
RECURSIVE RegisterCalls(_)
RegisterCalls(n) == IF n = 0 THEN 0 ELSE regCount[n] + RegisterCalls(n - 1)

\* C1: a Default call that has returned after reading a list of registered
\* factories of which at least one is available returns the instance of the
\* factory at the lowest available position of that list; and the list it read,
\* unless the read overlapped a Register, is the registry as it stood (an
\* initial part of the append-only registry now).
C1_FirstAvailableWins ==
    \A t \in Threads :
        (pc[t] = "def_ret" /\ \A i \in 1..Len(snapshot[t]) : snapshot[t][i] # Garbage)
        => /\ ~raced[t] => IsPrefix(snapshot[t], executors.elems)
           /\ AvailableSlots(snapshot[t]) # {}
              => \E k \in AvailableSlots(snapshot[t]) :
                    /\ \A j \in AvailableSlots(snapshot[t]) : k <= j
                    /\ result[t] = FactoryInstance(snapshot[t][k], k)

\* C1 witness: of two registered factories only the second is available, and
\* Default has returned its instance.
C1_Witness ==
    \E t \in Threads :
        /\ pc[t] = "def_ret"
        /\ Len(snapshot[t]) = 2
        /\ AvailableSlots(snapshot[t]) = {2}
        /\ result[t] = FactoryInstance(snapshot[t][2], 2)

\* C2: every Default call that has returned holds an executor (never nil or
\* nothing), and when the list it read has no available entry (empty, or all
\* unavailable) that executor is the fallback UniversalExecutor, which reports
\* itself available.
C2_SelectionNeverFails ==
    \A t \in Threads :
        pc[t] = "def_ret"
        => /\ result[t].impl \in {"registered", "universal"}
           /\ Available(result[t])
           /\ AvailableSlots(snapshot[t]) = {}
              => result[t] = UniversalInstance

\* C2 witness: a Default that read a non-empty list with no available entry
\* has returned the fallback.
C2_Witness ==
    \E t \in Threads :
        /\ pc[t] = "def_ret"
        /\ Len(snapshot[t]) >= 1
        /\ AvailableSlots(snapshot[t]) = {}
        /\ result[t] = UniversalInstance

\* C3: once every Register call has returned (each goroutine is idle or inside
\* Default), the registry holds every factory exactly as often as Register was
\* called with it, so its length is the number of Register calls.
C3_NoLostAppend ==
    (\A t \in Threads : pc[t] \in {"idle", "def_range", "def_iter", "def_ret"})
    => /\ \A f \in Factories : Occurrences(executors.elems, f) = regCount[f]
       /\ Len(executors.elems) = RegisterCalls(NumFactories)

\* C3 witness: all calls have returned and the registry holds entries of two
\* different factories.
C3_Witness ==
    /\ \A t \in Threads : pc[t] = "idle"
    /\ Len(executors.elems) >= 2
    /\ \E i, j \in 1..Len(executors.elems) : executors.elems[i] # executors.elems[j]

\* C4 (as claimed): no Default call reads the shared list while another
\* goroutine is inside Register's critical section.
C4_DefaultReadsUnderLock ==
    \A t \in Threads : ~raced[t]

\* The instance's process has ended.
Terminated == e.Process # 0 /\ procs[e.Process].state \in {"zombie", "gone"}

\* The instance is attached to a live process.
Running == e.Process # 0 /\ procs[e.Process].state = "running"

\* C5 (as claimed): no operation on the executor panics, in any state.
C5_NoOperationPanics ==
    ~crashed /\ last.ret # "panic"

\* C6: Pid() called on an instance on which neither Start nor Open has yet
\* returned nil fails with the not-started error and returns no pid.
C6_PidBeforeAttachFails ==
    (last.op = "Pid" /\ ~last.pre.attached)
    => (last.ret = "not started" /\ last.val \notin Pids)

\* C6 witness: Pid() has been called, as a later operation, on an instance never
\* attached (after a failed Start, a failed Open or an earlier failure).
C6_Witness ==
    /\ last.op = "Pid"
    /\ ~last.pre.attached
    /\ ops >= 2
    /\ last.ret = "not started"

\* C7 (as claimed): Open(pid) of a live process returns nil and Pid() then gives
\* that pid; Open(pid) of a pid that is no running process returns an error and
\* leaves the process handle as it was.
C7_OpenOnlyLivePids ==
    last.op = "Open"
    => IF last.pre.live
       THEN last.ret = "nil" /\ PidOutcome(e) = [ret |-> "nil", val |-> last.arg]
       ELSE last.ret # "nil" /\ e.Process = last.pre.e.Process

\* C8 (as claimed): a Start or Open called after a Start or Open has succeeded
\* on the instance does not succeed and does not change the attached pid.
C8_StartOpenAtMostOnce ==
    (last.op \in {"Start", "Open"} /\ last.pre.attached)
    => (last.ret # "nil" /\ e.Process = last.pre.e.Process)

\* C9 (as claimed): once the instance's process has ended, no step makes the
\* instance running with a live process again.
C9_TerminatedIsAbsorbing ==
    [][Terminated => ~Running']_vars

\* C10: a Shutdown step returns what ForceStop returns from the same state and
\* leaves the instance, the host's processes (so how the process ended) and the
\* program in the state ForceStop leaves them in.
C10_ShutdownIsForceStop ==
    [][(last'.op = "Shutdown" /\ ops' = ops + 1)
       => /\ last'.ret = ForceStopOutcome(e, procs).ret
          /\ procs' = ForceStopOutcome(e, procs).procs
          /\ e' = e
          /\ crashed' = (ForceStopOutcome(e, procs).ret = "panic")]_vars

\* C10 witness: Shutdown was called on an instance with a running process and
\* returned nil, and the process has ended by being killed.
C10_Witness ==
    /\ last.op = "Shutdown"
    /\ last.pre.state = "running"
    /\ last.ret = "nil"
    /\ procs[e.Process].state # "running"
    /\ procs[e.Process].status = IF hostOS = "unix" THEN "killed" ELSE "fail"

\* How the host classifies a process ended by Kill: killed by a signal on unix,
\* exit code 1 (no signals exist) on windows.
KillStatus == IF hostOS = "unix" THEN "killed" ELSE "fail"

\* ForceStop has just been called on a running process while the owner is
\* blocked in Wait.
ForceStopDuringWait ==
    blocked /\ last.op = "ForceStop" /\ last.pre.state = "running"

\* C11 (as claimed): when ForceStop is called on a running process while a
\* Wait is blocked on it, the Wait eventually returns a non-nil error and the
\* process is classified as terminated by a signal.
C11_WaitReturnsKilledBySignal ==
    ForceStopDuringWait
    ~> (~blocked /\ last.op = "Wait" /\ last.ret = "exit error"
        /\ e.ProcessState = "killed")

\* C11 (amended): when ForceStop is called on a running process while a Wait
\* is blocked on it, the Wait eventually returns a non-nil exit error, and the
\* process state it collected is the host's classification of a forced kill:
\* terminated by signal on unix, exit code 1 on windows.
C11_WaitReturnsAfterForceStop ==
    ForceStopDuringWait
    ~> (~blocked /\ last.op = "Wait" /\ last.ret = "exit error"
        /\ e.ProcessState = KillStatus)

\* C11 witness: a Wait called on a running process has returned an exit error
\* for a process killed by signal.
C11_Witness ==
    /\ ~blocked
    /\ last.op = "Wait"
    /\ last.pre.state = "running"
    /\ last.ret = "exit error"
    /\ e.ProcessState = "killed"

\* C12: a Shutdown called on an instance whose process is running (started or
\* reattached) returns nil and the process is no longer running: it has been
\* ended by the forced kill.
C12_ShutdownTerminates ==
    (last.op = "Shutdown" /\ last.pre.state = "running")
    => /\ last.ret = "nil"
       /\ procs[e.Process].state \in {"zombie", "gone"}
       /\ procs[e.Process].status = KillStatus

\* C12 witness: Shutdown was called on an instance reattached by Open to a
\* running process, which has ended.
C12_Witness ==
    /\ last.op = "Shutdown"
    /\ last.pre.state = "running"
    /\ succeeded = {"Open"}
    /\ procs[e.Process].state # "running"

\* C13: on an instance attached by Start alone, a first Wait that has returned
\* returns nil exactly when the process exited with status 0, and an exit
\* error for every other way it ended.
C13_WaitReportsExitStatus ==
    (last.op = "Wait" /\ last.ret # "blocked" /\ succeeded = {"Start"}
     /\ ~last.pre.e.finished)
    => /\ e.ProcessState = procs[e.Process].status
       /\ e.ProcessState \in {"ok", "fail", "killed"}
       /\ last.ret = "nil" <=> e.ProcessState = "ok"
       /\ last.ret # "nil" => last.ret = "exit error"

\* C13 witness: Start, then a Wait that returned an exit error for a process
\* that exited by itself with a failure status.
C13_Witness ==
    /\ last.op = "Wait"
    /\ succeeded = {"Start"}
    /\ last.ret = "exit error"
    /\ e.ProcessState = "fail"
    /\ hostOS = "unix"

\* C14 (as claimed): a Wait called on an instance whose process is running,
\* attached by Start or by Open, has not returned while that process is still
\* running.
C14_WaitBlocksUntilExit ==
    (last.op = "Wait" /\ last.ret # "blocked" /\ last.pre.state = "running")
    => ~Running

\* C15: a Wait called after a first Wait has returned for the exited process
\* does not block: it returns at once.
C15_SecondWaitReturns ==
    /\ (last.op = "Wait" /\ last.pre.e.done) => (last.ret # "blocked" /\ ~blocked)
    /\ blocked => ~pending.pre.e.done

\* C15 witness: a second Wait, after the first collected the exit status, has
\* returned an error.
C15_Witness ==
    /\ last.op = "Wait"
    /\ last.pre.e.done
    /\ last.pre.e.finished
    /\ last.pre.state = "gone"
    /\ last.ret = "Wait was already called"

\* C16: a Limit or RunAs step, in every state and with every argument, returns
\* nil and changes nothing of the instance (Resources, RunAs, Path, Args,
\* process handle, wait state), of the host's processes or of the program.
C16_LimitRunAsAreNoOps ==
    [][(last'.op \in {"Limit", "RunAs"} /\ ops' = ops + 1)
       => /\ last'.ret = "nil"
          /\ e' = e
          /\ e'.Resources = NoResources /\ e'.RunAs = ""
          /\ procs' = procs
          /\ succeeded' = succeeded
          /\ crashed' = crashed /\ blocked' = blocked]_vars

\* C16 witness: Limit was called on an instance with a running process and the
\* stored Resources are still the zero value.
C16_Witness ==
    /\ last.op = "Limit"
    /\ last.pre.state = "running"
    /\ e.Resources = NoResources
    /\ e = last.pre.e

\* C20: once a Start or Open has succeeded the process handle is never
\* cleared, and every Pid call made after that returns nil and the pid the
\* instance is attached to, also after the process has ended, after Wait has
\* returned and after ForceStop or Shutdown.
C20_PidSucceedsOnceAttached ==
    /\ succeeded # {} => e.Process \in Pids
    /\ (last.op = "Pid" /\ last.pre.attached)
       => (last.ret = "nil" /\ last.val = last.pre.e.Process /\ last.val \in Pids)

\* C20 witness: Pid was called after Wait had returned for the ended process
\* and returned its pid.
C20_Witness ==
    /\ last.op = "Pid"
    /\ last.pre.e.done
    /\ last.pre.state = "gone"
    /\ last.ret = "nil"
    /\ last.val = e.Process

\* Goroutine t takes a step of Default.
DefaultStep(t) ==
    \/ pc[t] = "idle" /\ pc'[t] = "def_range"
    \/ /\ pc[t] \in {"def_range", "def_iter", "def_ret"}
       /\ (pc'[t] # pc[t] \/ idx'[t] # idx[t])

\* C17: every step leaves the registry as it was or puts exactly one entry,
\* the factory a Register call was given, at its end (so the registry of every
\* earlier state is an initial part of every later one), and no step of
\* Default changes the registry.
C17_RegistryAppendOnly ==
    [][/\ IsPrefix(executors.elems, executors'.elems)
       /\ executors'.elems # executors.elems
          => \E t \in Threads :
                /\ pc[t] = "reg_store" /\ pc'[t] = "reg_unlock"
                /\ executors'.elems = Append(executors.elems, regArg[t])
       /\ (\E t \in Threads : DefaultStep(t)) => executors' = executors]_vars

\* C17 witness: the registry holds two entries in registration order and a
\* Default call has run over it to its return.
C17_Witness ==
    /\ Len(executors.elems) = 2
    /\ executors.elems[1] # executors.elems[2]
    /\ \E t \in Threads : pc[t] = "def_ret" /\ snapshot[t] = executors.elems

\* What a lone Default call selects from the registry as it stands: the instance
\* of the first factory whose instances are available, else the fallback.
ChosenByDefault ==
    LET A == AvailableSlots(executors.elems)
    IN  IF A = {} THEN UniversalInstance
        ELSE LET m == CHOOSE i \in A : \A j \in A : i <= j
             IN  FactoryInstance(executors.elems[m], m)

\* name has a directory component.
HasDirectory(name) == \E i \in 1..Len(name) : name[i] = Separator

\* C18: Command(name, args...) returns, with no error and never nil, the
\* executor Default selects; that executor has no process attached, its
\* argument list is name followed by args, and its path is the search-path
\* resolution of name when name has no directory component and is found on the
\* search path, and name itself otherwise.
C18_CommandBuildsCreated ==
    cmdOut.call = "Command" =>
        /\ cmdOut.executor = ChosenByDefault
        /\ cmdOut.executor.impl \in {"universal", "registered"}
        /\ cmdOut.err = "nil"
        /\ e.Process = 0 /\ ~e.finished /\ e.ProcessState = "nil"
        /\ e.Args = <<cmdOut.name>> \o cmdOut.arg
        /\ e.Path = IF ~HasDirectory(cmdOut.name) /\ cmdOut.name \in Installed
                    THEN SearchDir \o <<Separator>> \o cmdOut.name
                    ELSE cmdOut.name

\* Command was called with an installed bare name and arguments while a
\* registered executor was available, and resolved the name.
C18_Witness ==
    /\ cmdOut.call = "Command"
    /\ cmdOut.name = <<"a">>
    /\ cmdOut.arg # <<>>
    /\ cmdOut.executor.impl = "registered"
    /\ e.Path = <<Separator, "a", Separator, "a">>

\* C19: OpenPid(pid) returns either the executor Default selects, attached so
\* that its Pid() is pid, with a nil error, or a nil executor with a non-nil
\* error and nothing attached; the fallback executor gives the first outcome
\* exactly when the host finds the process.
C19_OpenPidAllOrNothing ==
    cmdOut.call = "OpenPid" =>
        /\ \/ /\ cmdOut.err = "nil"
              /\ cmdOut.executor = ChosenByDefault
              /\ PidOutcome(e) = [ret |-> "nil", val |-> cmdOut.pid]
           \/ /\ cmdOut.err \notin {"nil", "none"}
              /\ cmdOut.executor = NilExecutor
              /\ e.Process = 0
        /\ ChosenByDefault = UniversalInstance =>
              (cmdOut.err = "nil" <=> FindProcess(cmdOut.pid))

\* OpenPid was called for a pid the host could not open, and returned the
\* error with a nil executor.
C19_Witness ==
    /\ cmdOut.call = "OpenPid"
    /\ ~FindProcess(cmdOut.pid)
    /\ cmdOut.err = "failed to reopen pid"
    /\ cmdOut.executor = NilExecutor

\* ------------------------------------------------------ specifications
InitRegistry ==
    /\ executors = NilSlice
    /\ execFactoryMutex = 0
    /\ pc = [t \in Threads |-> "idle"]
    /\ regArg = [t \in Threads |-> 0]
    /\ regLocal = [t \in Threads |-> NilSlice]
    /\ snapshot = [t \in Threads |-> <<>>]
    /\ idx = [t \in Threads |-> 0]
    /\ result = [t \in Threads |-> NoExecutor]
    /\ raced = [t \in Threads |-> FALSE]
    /\ regCount = [f \in Factories |-> 0]
    /\ calls = 0

InitExecutor ==
    /\ e = FreshExecutor
    /\ succeeded = {}
    /\ last = NoOp
    /\ ops = 0
    /\ blocked = FALSE
    /\ pending = NoOp
    /\ cmdOut = NoCall
    /\ crashed = FALSE

\* The registry under concurrent Register and Default calls; no executor is
\* operated.
InitReg ==
    /\ InitRegistry
    /\ InitExecutor
    /\ avail \in [Factories -> BOOLEAN]
    /\ hostOS = "unix"
    /\ procs = [p \in Pids |-> NoProc]

\* One fallback executor on a host where some pids are processes of others.
InitExe ==
    /\ InitRegistry
    /\ InitExecutor
    /\ avail = [f \in Factories |-> FALSE]
    /\ hostOS \in {"unix", "windows"}
    /\ \E L \in SUBSET Pids :
          /\ L # Pids
          /\ procs = [p \in Pids |-> IF p \in L THEN ExternalProc ELSE NoProc]

NextRegistry ==
    \/ \E t \in Threads, f \in Factories : RegisterCall(t, f)
    \/ \E t \in Threads : RegisterLock(t)
    \/ \E t \in Threads : RegisterNilCheck(t)
    \/ \E t \in Threads : RegisterAppend(t)
    \/ \E t \in Threads : RegisterStore(t)
    \/ \E t \in Threads : RegisterUnlock(t)
    \/ \E t \in Threads : DefaultCall(t)
    \/ \E t \in Threads : DefaultRange(t)
    \/ \E t \in Threads : DefaultProbe(t)
    \/ \E t \in Threads : DefaultProbeGarbage(t)
    \/ \E t \in Threads : DefaultFallback(t)
    \/ \E t \in Threads : DefaultDone(t)

NextExecutor ==
    \/ Start
    \/ \E pid \in Pids : Open(pid)
    \/ Pid
    \/ ForceStop
    \/ Shutdown
    \/ WaitCall
    \/ WaitReturn
    \/ \E resources \in ResourceSpecs : Limit(resources)
    \/ \E userid \in UserIds : RunAs(userid)
    \/ \E p \in Pids, status \in {"ok", "fail"} : ProcExit(p, status)

SpecRegistry == InitReg /\ [][NextRegistry]_vars

SpecExecutor == InitExe /\ [][NextExecutor]_vars

\* One fallback executor on a host with no processes of others: every process
\* the executor meets is one it started.
InitStarted ==
    /\ InitRegistry
    /\ InitExecutor
    /\ avail = [f \in Factories |-> FALSE]
    /\ hostOS \in {"unix", "windows"}
    /\ procs = [p \in Pids |-> NoProc]

\* The executor's operations with the host's guarantee that a Wait blocked on a
\* process that has exited returns.
SpecExecutorFair == InitStarted /\ [][NextExecutor]_vars /\ WF_vars(WaitReturn)

\* The package-level constructors called by one goroutine over a registry that
\* earlier Register calls filled, on a host where pid 1 is a process of another
\* program.
Registries == UNION {[1..n -> Factories] : n \in 0..MaxCalls}

InitCommand ==
    /\ \E s \in Registries :
          /\ executors = IF s = <<>> THEN NilSlice ELSE [isNil |-> FALSE, elems |-> s]
          /\ regCount = [f \in Factories |-> Occurrences(s, f)]
          /\ calls = Len(s)
    /\ execFactoryMutex = 0
    /\ pc = [t \in Threads |-> "idle"]
    /\ regArg = [t \in Threads |-> 0]
    /\ regLocal = [t \in Threads |-> NilSlice]
    /\ snapshot = [t \in Threads |-> <<>>]
    /\ idx = [t \in Threads |-> 0]
    /\ result = [t \in Threads |-> NoExecutor]
    /\ raced = [t \in Threads |-> FALSE]
    /\ InitExecutor
    /\ avail \in [Factories -> BOOLEAN]
    /\ hostOS \in {"unix", "windows"}
    /\ procs = [p \in Pids |-> IF p = 1 THEN ExternalProc ELSE NoProc]

NextCommand ==
    \/ \E name \in Names, arg \in ArgLists : Command(name, arg)
    \/ \E pid \in Pids : OpenPid(pid)

SpecCommand == InitCommand /\ [][NextCommand]_vars
====
